---- MODULE Spec2Model ----
(***************************************************************************)
(* Minimax and alpha-beta search of players.py, driven as in               *)
(* requirements.py: random_midgame pre-fills a board, measure_one_decision *)
(* runs MinMaxPlayer.make_move and then AlphaBetaPlayer.make_move on the   *)
(* same state.  Board and Heuristic (board.py, heuristics.py) are          *)
(* collaborators whose code is outside src/; they are modelled from the    *)
(* contracts of spec.md sections 3 and 6.                                  *)
(*                                                                         *)
(* A search record st carries the heuristic's eval_count (field n) and a   *)
(* log of what the search did: every get_new_board call, every value rec   *)
(* returned, every leaf score, the cutoffs taken.                          *)
(***************************************************************************)
EXTENDS Integers, Sequences, FiniteSets

VARIABLES board, player, pc, player_id, game_n, depth, hseed, mm, ab

vars == <<board, player, pc, player_id, game_n, depth, hseed, mm, ab>>

(* ------------------------------ bounds -------------------------------- *)

\* Largest configured search depth (MinMaxPlayer.depth, AlphaBetaPlayer.depth).
MaxDepth == 3

\* The positional part of the heuristic is drawn from the family 0..MaxSeed.
MaxSeed == 1

\* Board sizes and win lengths tried: <<width, height, game_n>>.
Configs == {<<2, 2, 3>>, <<3, 2, 2>>, <<3, 3, 3>>, <<4, 1, 2>>}

PlayerIds == {1, 2}

(* ----------------------------- constants ------------------------------ *)

NegInf == -1000000000

PosInf == 1000000000

\* Score of a won board; a lost board scores -WinScore.
WinScore == 100

Max(a, b) == IF a >= b THEN a ELSE b

Min(a, b) == IF a <= b THEN a ELSE b

(* ------------------------------- Board -------------------------------- *)

\* Board(width, height): an empty grid, kept as one stack per column
\* (bottom piece first), which is what the gravity rule makes of the grid.
Board(w, h) == [w |-> w, h |-> h, cols |-> [c \in 0..(w - 1) |-> <<>>]]

is_valid(b, c) == Len(b.cols[c]) < b.h

\* A new board; the given one is not changed.  On a full column no piece
\* is placed.
get_new_board(b, c, p) ==
    IF is_valid(b, c) THEN [b EXCEPT !.cols[c] = Append(@, p)] ELSE b

\* get_board_state()[c][r]: 0 for an empty cell.
Cell(b, c, r) ==
    IF c \in 0..(b.w - 1) /\ r >= 0 /\ r < Len(b.cols[c]) THEN b.cols[c][r + 1] ELSE 0

Directions == {<<1, 0>>, <<0, 1>>, <<1, 1>>, <<1, -1>>}

HasLine(b, p, n) ==
    \E c \in 0..(b.w - 1), r \in 0..(b.h - 1), d \in Directions :
        \A i \in 0..(n - 1) : Cell(b, c + i * d[1], r + i * d[2]) = p

(* ----------------------------- Heuristic ------------------------------ *)

\* Which player has n in a row, 0 for none.
winning(b, n) == IF HasLine(b, 1, n) THEN 1 ELSE IF HasLine(b, 2, n) THEN 2 ELSE 0

\* Positional score of an undecided board for pid; seed 0 is the flat
\* heuristic, the others weigh cells differently.
Positional(pid, b, seed) ==
    LET cells == (0..(b.w - 1)) \X (0..(b.h - 1))
        wt(c, r) == IF Cell(b, c, r) = pid THEN (seed * c + r) % 3
                    ELSE IF Cell(b, c, r) = 0 THEN 0
                    ELSE 0 - ((c + seed * r) % 3)
        RECURSIVE Sum(_)
        Sum(S) == IF S = {} THEN 0
                  ELSE LET x == CHOOSE y \in S : TRUE
                       IN wt(x[1], x[2]) + Sum(S \ {x})
    IN IF seed = 0 THEN 0 ELSE Sum(cells)

\* evaluate_board(pid, board) without its counting: a signed score from
\* pid's perspective, higher is better for pid.
evaluate_board(pid, b) ==
    LET w == winning(b, game_n)
    IN IF w = pid THEN WinScore
       ELSE IF w # 0 THEN 0 - WinScore
       ELSE Positional(pid, b, hseed)

(* ---------------------------- search log ------------------------------ *)

st0 == [n |-> 0, calls |-> {}, rets |-> {}, leaves |-> {}, empty |-> 0,
        cut |-> 0, skipped |-> 0, maxply |-> 0]

\* get_new_board(c, pid) is about to be called on b at a node of kind
\* maximizing (the root loop is a maximizing node).
LogCall(st, b, c, pid, maximizing) ==
    [st EXCEPT !.calls = @ \cup {[valid |-> is_valid(b, c), pid |-> pid,
                                  maximizing |-> maximizing]}]

\* rec was entered at ply (1 for a child of the given board).
LogEnter(st, ply) == [st EXCEPT !.maxply = Max(@, ply)]

\* rec returns v from an expanded node that evaluated kids children.
LogReturn(st, v, kids) ==
    [st EXCEPT !.rets = @ \cup {v}, !.empty = @ + (IF kids = 0 THEN 1 ELSE 0)]

\* The break was taken after column c of b.
LogCut(st, b, c) ==
    [st EXCEPT !.cut = @ + 1,
               !.skipped = @ + Cardinality({k \in (c + 1)..(b.w - 1) : is_valid(b, k)})]

(* --------------------------- MinMaxPlayer ----------------------------- *)

\* Mutant: the conditional expression the wrong way round.
MM_opponent_same == IF player_id = 1 THEN 1 ELSE 2

MM_opponent == IF player_id = 1 THEN 2 ELSE 1

\* Mutant: the depth limit one ply early.
MM_terminal_or_depth_early(b, d) ==
    \/ winning(b, game_n) # 0
    \/ d <= 1
    \/ ~(\E c \in 0..(b.w - 1) : is_valid(b, c))

MM_terminal_or_depth(b, d) ==
    \/ winning(b, game_n) # 0
    \/ d = 0
    \/ ~(\E c \in 0..(b.w - 1) : is_valid(b, c))

\* score(b): one call of heuristic.evaluate_board for the root player.
MM_score(b, st) ==
    LET s == evaluate_board(player_id, b)
    IN [v |-> s, st |-> [st EXCEPT !.n = @ + 1, !.leaves = @ \cup {s}, !.rets = @ \cup {s}]]

RECURSIVE MM_rec(_, _, _, _, _), MM_rec_loop(_, _, _, _, _, _, _, _)

\* The for loop of rec from column c on, best and kids as they stand.
MM_rec_loop(b, d, maximizing, ply, c, best, kids, st) ==
    IF c >= b.w THEN [v |-> best, st |-> LogReturn(st, best, kids)]
    ELSE IF is_valid(b, c)
    THEN LET pid == IF maximizing THEN player_id ELSE MM_opponent
             r == MM_rec(get_new_board(b, c, pid), d - 1, ~maximizing, ply + 1,
                         LogCall(st, b, c, pid, maximizing))
         IN MM_rec_loop(b, d, maximizing, ply, c + 1,
                        IF maximizing THEN Max(best, r.v) ELSE Min(best, r.v),
                        kids + 1, r.st)
    ELSE MM_rec_loop(b, d, maximizing, ply, c + 1, best, kids, st)

MM_rec(b, d, maximizing, ply, st) ==
    IF MM_terminal_or_depth(b, d) THEN MM_score(b, LogEnter(st, ply))
    ELSE MM_rec_loop(b, d, maximizing, ply, 0, IF maximizing THEN NegInf ELSE PosInf,
                     0, LogEnter(st, ply))

RECURSIVE MM_root_loop_ge(_, _, _, _, _, _)

\* Mutant: v >= best_val, so a later equal value replaces the incumbent.
MM_root_loop_ge(b, c, best_val, best_col, vals, st) ==
    IF c >= b.w THEN [best_val |-> best_val, best_col |-> best_col, vals |-> vals, st |-> st]
    ELSE IF is_valid(b, c)
    THEN LET r == MM_rec(get_new_board(b, c, player_id), depth - 1, FALSE, 1,
                         LogCall(st, b, c, player_id, TRUE))
         IN IF r.v >= best_val
            THEN MM_root_loop_ge(b, c + 1, r.v, <<c>>, vals \cup {<<c, r.v>>}, r.st)
            ELSE MM_root_loop_ge(b, c + 1, best_val, best_col, vals \cup {<<c, r.v>>}, r.st)
    ELSE MM_root_loop_ge(b, c + 1, best_val, best_col, vals, st)

RECURSIVE MM_root_loop(_, _, _, _, _, _)

\* The root loop of make_move from column c on; best_col is <<>> for None;
\* vals collects <<c, v>> for every root child evaluated.
MM_root_loop(b, c, best_val, best_col, vals, st) ==
    IF c >= b.w THEN [best_val |-> best_val, best_col |-> best_col, vals |-> vals, st |-> st]
    ELSE IF is_valid(b, c)
    THEN LET r == MM_rec(get_new_board(b, c, player_id), depth - 1, FALSE, 1,
                         LogCall(st, b, c, player_id, TRUE))
         IN IF r.v > best_val
            THEN MM_root_loop(b, c + 1, r.v, <<c>>, vals \cup {<<c, r.v>>}, r.st)
            ELSE MM_root_loop(b, c + 1, best_val, best_col, vals \cup {<<c, r.v>>}, r.st)
    ELSE MM_root_loop(b, c + 1, best_val, best_col, vals, st)

\* Mutant: column 0 instead of the sentinel -1.
MM_result_zero(r) ==
    [col |-> IF r.best_col = <<>> THEN 0 ELSE r.best_col[1],
     best_val |-> r.best_val, vals |-> r.vals, st |-> r.st]

\* What make_move returns (col), with what it computed and did.
MM_result(r) ==
    [col |-> IF r.best_col = <<>> THEN -1 ELSE r.best_col[1],
     best_val |-> r.best_val, vals |-> r.vals, st |-> r.st]

MinMaxPlayer_make_move(b) == MM_result(MM_root_loop(b, 0, NegInf, <<>>, {}, st0))

(* -------------------------- AlphaBetaPlayer --------------------------- *)

AB_opponent == IF player_id = 1 THEN 2 ELSE 1

\* Mutant: the depth limit forgotten.
AB_terminal_or_depth_nodepth(b, d) ==
    \/ winning(b, game_n) # 0
    \/ ~(\E c \in 0..(b.w - 1) : is_valid(b, c))

\* Mutant: the check for a full board forgotten.
AB_terminal_or_depth_nofull(b, d) ==
    \/ winning(b, game_n) # 0
    \/ d = 0

AB_terminal_or_depth(b, d) ==
    \/ winning(b, game_n) # 0
    \/ d = 0
    \/ ~(\E c \in 0..(b.w - 1) : is_valid(b, c))

AB_score(b, st) ==
    LET s == evaluate_board(player_id, b)
    IN [v |-> s, st |-> [st EXCEPT !.n = @ + 1, !.leaves = @ \cup {s}, !.rets = @ \cup {s}]]

\* Mutant: the comparison the wrong way round.
AB_cutoff_inverted(alpha, beta) == alpha <= beta

\* if alpha >= beta: break
AB_cutoff(alpha, beta) == alpha >= beta

RECURSIVE AB_rec(_, _, _, _, _, _, _), AB_rec_loop(_, _, _, _, _, _, _, _, _, _)

\* The for loop of rec from column c on, with alpha, beta, value and kids
\* as they stand.
AB_rec_loop(b, d, alpha, beta, maximizing, ply, c, value, kids, st) ==
    IF c >= b.w THEN [v |-> value, st |-> LogReturn(st, value, kids)]
    ELSE IF is_valid(b, c)
    THEN LET pid == IF maximizing THEN player_id ELSE AB_opponent
             r == AB_rec(get_new_board(b, c, pid), d - 1, alpha, beta, ~maximizing,
                         ply + 1, LogCall(st, b, c, pid, maximizing))
             value2 == IF maximizing THEN Max(value, r.v) ELSE Min(value, r.v)
             alpha2 == IF maximizing THEN Max(alpha, value2) ELSE alpha
             beta2 == IF maximizing THEN beta ELSE Min(beta, value2)
         IN IF AB_cutoff(alpha2, beta2)
            THEN [v |-> value2, st |-> LogReturn(LogCut(r.st, b, c), value2, kids + 1)]
            ELSE AB_rec_loop(b, d, alpha2, beta2, maximizing, ply, c + 1, value2,
                             kids + 1, r.st)
    ELSE AB_rec_loop(b, d, alpha, beta, maximizing, ply, c + 1, value, kids, st)

AB_rec(b, d, alpha, beta, maximizing, ply, st) ==
    IF AB_terminal_or_depth(b, d) THEN AB_score(b, LogEnter(st, ply))
    ELSE AB_rec_loop(b, d, alpha, beta, maximizing, ply, 0,
                     IF maximizing THEN NegInf ELSE PosInf, 0, LogEnter(st, ply))

RECURSIVE AB_root_loop_ge(_, _, _, _, _, _, _)

\* Mutant: v >= best_val, so a later equal value replaces the incumbent.
AB_root_loop_ge(b, c, best_val, best_col, alpha, vals, st) ==
    IF c >= b.w THEN [best_val |-> best_val, best_col |-> best_col, vals |-> vals, st |-> st]
    ELSE IF is_valid(b, c)
    THEN LET r == AB_rec(get_new_board(b, c, player_id), depth - 1, alpha, PosInf, FALSE,
                         1, LogCall(st, b, c, player_id, TRUE))
             best_val2 == IF r.v >= best_val THEN r.v ELSE best_val
             best_col2 == IF r.v >= best_val THEN c ELSE best_col
         IN AB_root_loop_ge(b, c + 1, best_val2, best_col2, Max(alpha, best_val2),
                            vals \cup {<<c, r.v>>}, r.st)
    ELSE AB_root_loop_ge(b, c + 1, best_val, best_col, alpha, vals, st)

RECURSIVE AB_root_loop(_, _, _, _, _, _, _)

\* The root loop of make_move from column c on; beta stays 10**9.
AB_root_loop(b, c, best_val, best_col, alpha, vals, st) ==
    IF c >= b.w THEN [best_val |-> best_val, best_col |-> best_col, vals |-> vals, st |-> st]
    ELSE IF is_valid(b, c)
    THEN LET r == AB_rec(get_new_board(b, c, player_id), depth - 1, alpha, PosInf, FALSE,
                         1, LogCall(st, b, c, player_id, TRUE))
             best_val2 == IF r.v > best_val THEN r.v ELSE best_val
             best_col2 == IF r.v > best_val THEN c ELSE best_col
         IN AB_root_loop(b, c + 1, best_val2, best_col2, Max(alpha, best_val2),
                         vals \cup {<<c, r.v>>}, r.st)
    ELSE AB_root_loop(b, c + 1, best_val, best_col, alpha, vals, st)

AB_result(r) == [col |-> r.best_col, best_val |-> r.best_val, vals |-> r.vals, st |-> r.st]

\* Mutant: best_val starts at +10**9.
AlphaBetaPlayer_make_move_posinf(b) == AB_result(AB_root_loop(b, 0, PosInf, 0, NegInf, {}, st0))

AlphaBetaPlayer_make_move(b) == AB_result(AB_root_loop(b, 0, NegInf, 0, NegInf, {}, st0))

(* ----------------------------- the driver ----------------------------- *)

\* mm and ab before make_move has run; -2 is no column and no sentinel.
NoResult == [col |-> -2, best_val |-> NegInf, vals |-> {}, st |-> st0]

Init ==
    /\ \E cfg \in Configs : board = Board(cfg[1], cfg[2]) /\ game_n = cfg[3]
    /\ player = 1
    /\ pc = "prefill"
    /\ player_id \in PlayerIds
    /\ depth \in 0..MaxDepth
    /\ hseed \in 0..MaxSeed
    /\ mm = NoResult
    /\ ab = NoResult

\* One iteration of random_midgame's loop: a legal column, the move, and
\* the break on a win.
random_midgame_move ==
    /\ pc = "prefill"
    /\ \E col \in {c \in 0..(board.w - 1) : is_valid(board, c)} :
        /\ board' = get_new_board(board, col, player)
        /\ IF winning(board', game_n) # 0
           THEN pc' = "ready" /\ player' = player
           ELSE pc' = "prefill" /\ player' = (IF player = 1 THEN 2 ELSE 1)
    /\ UNCHANGED <<player_id, game_n, depth, hseed, mm, ab>>

\* random_midgame returns cur: range(plies) is used up (plies is any
\* number) or no column is legal.
random_midgame_return ==
    /\ pc = "prefill"
    /\ pc' = "ready"
    /\ UNCHANGED <<board, player, player_id, game_n, depth, hseed, mm, ab>>

\* measure_one_decision, first half: p_min.make_move on the state.
measure_minimax ==
    /\ pc = "ready"
    /\ mm' = MinMaxPlayer_make_move(board)
    /\ pc' = "minimax"
    /\ UNCHANGED <<board, player, player_id, game_n, depth, hseed, ab>>

\* measure_one_decision, second half: p_ab.make_move on the same state.
measure_alphabeta ==
    /\ pc = "minimax"
    /\ ab' = AlphaBetaPlayer_make_move(board)
    /\ pc' = "done"
    /\ UNCHANGED <<board, player, player_id, game_n, depth, hseed, mm>>

Next == random_midgame_move \/ random_midgame_return \/ measure_minimax \/ measure_alphabeta

Spec == Init /\ [][Next]_vars

(* ------------------------------ claims -------------------------------- *)

Done == pc = "done"

ValidCols(b) == {c \in 0..(b.w - 1) : is_valid(b, c)}

\* Columns where the acting player completes game_n in a row at once.
WinCols(b) == {c \in ValidCols(b) : winning(get_new_board(b, c, player_id), game_n) = player_id}

EmptyCells(b) == Cardinality({<<c, r>> \in (0..(b.w - 1)) \X (0..(b.h - 1)) : Cell(b, c, r) = 0})

Lowest(S) == CHOOSE c \in S : \A k \in S : c <= k

\* C1 as stated: for any board the two searches return the same column
\* and the same root value.
C1_AnyBoard == Done => (mm.col = ab.col /\ mm.best_val = ab.best_val)

\* C1 amended: on any board with at least one valid column the two
\* searches return the same column and the same root value; on a board
\* with none the root values still agree.
C1_Equivalence ==
    Done => (mm.best_val = ab.best_val /\ (ValidCols(board) # {} => mm.col = ab.col))

C1_Witness ==
    /\ Done /\ ValidCols(board) # {}
    /\ ab.st.skipped > 0 /\ ab.vals # mm.vals
    /\ mm.col = ab.col /\ mm.col > 0

\* C2: alpha-beta never performs more leaf evaluations than minimax on
\* the same board, win length and depth.
C2_LeafCount == Done => ab.st.n <= mm.st.n

C2_Witness == Done /\ ab.st.n < mm.st.n /\ ab.st.n > 0

\* C3 as stated: whenever the break is taken at some node, alpha-beta's
\* leaf count is strictly less than minimax's.
C3_AnyCutoff == (Done /\ ab.st.cut > 0) => ab.st.n < mm.st.n

\* C3 amended: whenever the break is taken at a node that still has a
\* valid column after the one just searched, alpha-beta's leaf count is
\* strictly less than minimax's.
C3_SkippingCutoff == (Done /\ ab.st.skipped > 0) => ab.st.n < mm.st.n

C3_Witness == Done /\ ab.st.cut > 0 /\ ab.st.skipped > 0 /\ depth >= 2

\* C4: with depth = 0 neither search descends below the children of the
\* given board.
C4_DepthZero == (Done /\ depth = 0) => (mm.st.maxply <= 1 /\ ab.st.maxply <= 1)

C5_Pre == Done /\ depth >= 1 /\ winning(board, game_n) = 0 /\ WinCols(board) # {}

\* C5 as stated: on a board one move from a win for the acting player,
\* both searches at any depth >= 1 return a winning column.
C5_AnyDepth == C5_Pre => (mm.col \in WinCols(board) /\ ab.col \in WinCols(board))

\* C5 amended: on such a board both searches return a column whose root
\* value is the win score and that is no later than the first winning
\* column, the lowest column whose minimax value is the win score; at
\* depth 1 or 2 it is the first winning column.
C5_ImmediateWin ==
    C5_Pre =>
        /\ mm.best_val = WinScore /\ ab.best_val = WinScore
        /\ mm.col = Lowest({p[1] : p \in {q \in mm.vals : q[2] = WinScore}}) /\ ab.col = mm.col
        /\ mm.col <= Lowest(WinCols(board)) /\ ab.col <= Lowest(WinCols(board))
        /\ depth <= 2 => (mm.col = Lowest(WinCols(board)) /\ ab.col = Lowest(WinCols(board)))

C5_Witness ==
    /\ C5_Pre /\ depth = 2 /\ Cardinality(WinCols(board)) >= 2
    /\ mm.col = Lowest(WinCols(board)) /\ mm.col > 0

\* C6: on a board with no valid column minimax returns -1 and alpha-beta
\* returns 0, no move is applied and no leaf is evaluated.
C6_NoValidColumn ==
    (Done /\ ValidCols(board) = {}) =>
        /\ mm.col = -1 /\ ab.col = 0
        /\ mm.st.calls = {} /\ ab.st.calls = {}
        /\ mm.st.n = 0 /\ ab.st.n = 0

C6_Witness == Done /\ ValidCols(board) = {} /\ mm.col = -1 /\ ab.col = 0

\* C7: both searches return the lowest valid column among those whose
\* child has the maximal minimax value.
C7_TieBreak ==
    (Done /\ ValidCols(board) # {}) =>
        /\ {p[1] : p \in mm.vals} = ValidCols(board)
        /\ \E p \in mm.vals :
            /\ \A q \in mm.vals : q[2] <= p[2] /\ (q[2] = p[2] => p[1] <= q[1])
            /\ mm.col = p[1]
            /\ ab.col = p[1]

C7_Witness ==
    /\ Done /\ hseed > 0
    /\ \E p, q \in mm.vals :
        /\ p[1] < q[1] /\ p[2] = q[2] /\ mm.col = p[1] /\ ab.col = p[1]
        /\ \E x \in mm.vals : x[1] < p[1] /\ x[2] < p[2]

C9_NoPlaceholder ==
    \A r \in {mm, ab} :
        /\ r.st.empty = 0
        /\ NegInf \notin r.st.rets /\ PosInf \notin r.st.rets
        /\ r.st.rets \subseteq r.st.leaves

C9_Witness ==
    /\ Done /\ depth = 3 /\ EmptyCells(board) = 2 /\ Cardinality(ValidCols(board)) = 2
    /\ mm.st.maxply = 2 /\ ab.st.maxply = 2
    /\ \E v \in mm.st.rets : v # WinScore /\ v # 0 - WinScore

\* C10: on a board with at least one valid column both searches return a
\* valid column of that board.
C10_ValidColumn ==
    (Done /\ ValidCols(board) # {}) =>
        (mm.col \in ValidCols(board) /\ ab.col \in ValidCols(board))

C10_Witness == Done /\ ~is_valid(board, 0) /\ ValidCols(board) # {} /\ ab.col > 0 /\ mm.col > 0

====
